---- MODULE Spec2Model ----
(***************************************************************************)
(* The playback session of DigitalNexStream: AudioProvider                 *)
(* (src/src/context/AudioContext.tsx) with the <audio> element it drives   *)
(* and the likes and streams tables it reaches through src/src/lib/api.ts.  *)
(*                                                                         *)
(* Indices are 0-based as in the code: At(q, i) is q[i] of the source.     *)
(* Volumes are hundredths (0.7 is 70); times are whole seconds.            *)
(***************************************************************************)
EXTENDS Integers, Sequences, FiniteSets, TLC

\* ------------------------------------------------------------------ bounds
MaxLen == 3           \* longest playlist handed to playTrack (playback alone)
ShortLen == 2         \* longest playlist handed to playTrack (whole session)
MaxStreamReqs == 1    \* incrementStreamCount calls in flight at once
MaxLikeCalls == 2     \* toggleLike requests issued in one behaviour
MaxEvents == 2        \* event tasks of the element waiting to be dispatched
TrackDur == 1         \* length in seconds of every media resource
MaxUploads == 2       \* uploadTrack calls made in one behaviour

\* ------------------------------------------------------- program constants
InitVolume == 70      \* useState(0.7)

Null == "null"                  \* no caller signed in
NoTrack == [none |-> TRUE]      \* currentTrack === null
NoSrc == 0                      \* the element has no resource yet
Undefined == [given |-> FALSE]  \* playTrack called without a playlist
Given(list) == [given |-> TRUE, list |-> list]
TrackIds == {1, 2}               \* the catalogue: one track not liked, one liked
Users == {"u1"}
Times == 0 .. TrackDur
VolumeInputs == {50, 150}        \* a slider value, and one past the top

\* ------------------------------------------------------------------- state
VARIABLES
    currentTrack,   \* useState: TrackWithArtistAndLikes | null
    isPlaying,      \* useState(false)
    currentTime,    \* useState(0)
    duration,       \* useState(0)
    volume,         \* useState(0.7)
    queue,          \* useState([])
    currentIndex,   \* useState(0)
    user,           \* useAuth().user: a user id or Null
    audio,          \* the <audio> element behind audioRef
    playThen,       \* playTrack's play().then(...) is still pending
    streamReqs,     \* incrementStreamCount inserts in flight, in call order
    serverLikes,    \* track ids with a likes row for the caller
    likeReqs,       \* toggleLike calls in flight, in call order
    likeCalls,      \* number of toggleLike calls issued so far
    likeLog,        \* history: toggleLike outcomes since the last load
    events,         \* event tasks the element has queued, not yet dispatched
    dropped,        \* history: event tasks the latest load discarded
    shown,          \* history: the item as the last resolved toggle left it
                    \* on screen, since a page last called playTrack
    files,          \* storage: the objects of the audio_files and cover_art buckets
    tracks,         \* the rows of the tracks table
    contributors,   \* ids of the tracks that have contributors rows
    uploads,        \* number of uploadTrack calls made so far
    upl,            \* the uploadTrack call: where it stands, what it got
    del             \* the deleteTrack call: where it stands, what it was given

playerVars == << currentTrack, isPlaying, currentTime, duration, volume, queue,
                 currentIndex, user, audio, playThen, streamReqs, serverLikes,
                 likeReqs, likeCalls, likeLog, events, dropped, shown >>

libVars == << files, tracks, contributors, uploads, upl, del >>

vars == << playerVars, libVars >>

\* ------------------------------------------------------------------- items
\* likes and user_liked are the embedded count arrays of the select: a
\* sequence holding the count, or the empty sequence.
\* The catalogue as the pages fetched it: odd tracks have no likes, even
\* tracks have one like, the caller's.
Catalog(id) ==
    IF id % 2 = 1 THEN [likes |-> <<0>>, user_liked |-> <<0>>]
                  ELSE [likes |-> <<1>>, user_liked |-> <<1>>]

\* The item of track id as a page hands it to the player; a page fetched
\* without a caller has no user_liked counts.
Item(id) ==
    [id |-> id, likes |-> Catalog(id).likes,
     user_liked |-> IF user = Null THEN << >> ELSE Catalog(id).user_liked]

RECURSIVE SeqsUpTo(_, _)
SeqsUpTo(S, n) ==
    IF n = 0 THEN { << >> }
    ELSE LET shorter == SeqsUpTo(S, n - 1)
         IN  shorter \cup { Append(s, x) : s \in { t \in shorter : Len(t) = n - 1 }, x \in S }

\* What a caller may pass as the optional playlist: nothing, or a list.
Playlists(idLists) ==
    { Undefined } \cup
    { Given([i \in 1 .. Len(s) |-> Item(s[i])]) : s \in idLists }

\* The orders of track ids a page may list, duplicates included.
LongIdLists == SeqsUpTo(TrackIds, MaxLen)
ShortIdLists == SeqsUpTo(TrackIds, ShortLen)

At(q, i) == q[i + 1]

\* currentTrack.user_liked?.[0]?.count > 0, as the player bar shows it
Liked(t) == Len(t.user_liked) > 0 /\ t.user_liked[1] > 0

\* prev.likes?.[0]?.count ?? dflt
LikesCount(t, dflt) == IF Len(t.likes) > 0 THEN t.likes[1] ELSE dflt

\* Mutant of FindIndex: the last match instead of the first.
FindIndexLast(playlist, id) ==
    IF \E i \in 1 .. Len(playlist) : playlist[i].id = id
    THEN (CHOOSE i \in 1 .. Len(playlist) :
              /\ playlist[i].id = id
              /\ \A j \in (i + 1) .. Len(playlist) : playlist[j].id # id) - 1
    ELSE -1

\* playlist.findIndex(t => t.id === id): first match, 0-based, or -1
FindIndex(playlist, id) ==
    IF \E i \in 1 .. Len(playlist) : playlist[i].id = id
    THEN (CHOOSE i \in 1 .. Len(playlist) :
              /\ playlist[i].id = id
              /\ \A j \in 1 .. (i - 1) : playlist[j].id # id) - 1
    ELSE -1

\* (currentIndex + 1) % queue.length
NextIndex(q, i) == (i + 1) % Len(q)

\* currentIndex === 0 ? queue.length - 1 : currentIndex - 1
PrevIndex(q, i) == IF i = 0 THEN Len(q) - 1 ELSE i - 1

\* ------------------------------------------------------------------- Init
\* A stored object is named by uuidv4() plus the extension: a name no other
\* upload gets. The name is a string; the empty string is << >>.
FileName(n) == << n >>
NoName == << >>

\* getPublicUrl(path): the bucket's base address, a slash, the path.
PublicUrl(bucket, name) == << bucket, name >>
NoUrl == << >>

\* url.split('/').pop(): the text after the last slash.
LastSegment(url) == IF Len(url) = 0 THEN NoName ELSE url[Len(url)]

\* A row the table holds before any upload of this session: cover_art_url
\* is a nullable column, and this row has no cover art.
SeedName == FileName(0)
SeedRow == [id |-> 0, audio_url |-> PublicUrl("audio_files", SeedName),
            cover_art_url |-> NoUrl]

Init ==
    /\ currentTrack = NoTrack
    /\ isPlaying = FALSE
    /\ currentTime = 0
    /\ duration = 0
    /\ volume = InitVolume
    /\ queue = << >>
    /\ currentIndex = 0
    /\ user \in Users \cup { Null }
    /\ audio = [src |-> NoSrc, paused |-> TRUE, pendingPlay |-> FALSE,
                currentTime |-> 0, duration |-> 0, volume |-> 100]
    /\ playThen = FALSE
    /\ streamReqs = << >>
    /\ serverLikes = IF user = Null THEN {}
                     ELSE { id \in TrackIds : Catalog(id).user_liked[1] > 0 }
    /\ likeReqs = << >>
    /\ likeCalls = 0
    /\ likeLog = << >>
    /\ events = << >>
    /\ dropped = 0
    /\ shown = NoTrack
    /\ files = { [bucket |-> "audio_files", name |-> SeedName] }
    /\ tracks = { SeedRow }
    /\ contributors = {}
    /\ uploads = 0
    /\ upl = [pc |-> "idle", n |-> 0, audio_url |-> NoUrl, cover_art_url |-> NoUrl]
    /\ del = [pc |-> "idle", row |-> SeedRow, had |-> {}]

\* ---------------------------------------------------------------- playTrack
\* Mutant of QueueAfterPlay: a playlist that lacks the track is still adopted.
QueueAfterPlayKeepsList(track, playlist) ==
    IF playlist.given THEN playlist.list ELSE << track >>

\* setQueue / setCurrentIndex of playTrack
QueueAfterPlay(track, playlist) ==
    IF playlist.given /\ FindIndex(playlist.list, track.id) # -1
    THEN playlist.list
    ELSE << track >>

\* Mutant of IndexAfterPlay: the cursor is always put on the first item.
IndexAfterPlayZero(track, playlist) == 0

\* Mutant of IndexAfterPlay: the index is stored without the -1 test.
IndexAfterPlayUnchecked(track, playlist) ==
    IF playlist.given THEN FindIndex(playlist.list, track.id) ELSE 0

IndexAfterPlay(track, playlist) ==
    IF playlist.given /\ FindIndex(playlist.list, track.id) # -1
    THEN FindIndex(playlist.list, track.id)
    ELSE 0

\* audio.src = url; audio.load(); audio.play(): the element drops the old
\* resource and its pending play promises, rewinds, forgets the duration
\* and asks to play.
DeviceLoadAndPlay(track) ==
    [audio EXCEPT !.src = track.id, !.paused = FALSE, !.pendingPlay = TRUE,
                  !.currentTime = 0, !.duration = 0]

\* Mutant of EventsAfterLoad: event tasks of the old resource stay queued
\* (as with a fresh element per load whose predecessor keeps its listeners).
EventsAfterLoadKept(evs) == evs

\* audio.load() on the one element: the event tasks it had queued for the
\* resource it drops are removed before they are dispatched.
EventsAfterLoad(evs) == << >>

\* Mutant of StreamRecord: the caller is left out of the record.
StreamRecordNoUser(track) == [track_id |-> track.id, user_id |-> Null]

\* incrementStreamCount(track.id, user?.id ?? null): the row it inserts
StreamRecord(track) == [track_id |-> track.id, user_id |-> user]

\* The body of playTrack, run while the event tasks evs are waiting;
\* incrementStreamCount is started and not awaited.
LoadBody(track, playlist, evs) ==
    /\ Len(streamReqs) < MaxStreamReqs
    /\ queue' = QueueAfterPlay(track, playlist)
    /\ currentIndex' = IndexAfterPlay(track, playlist)
    /\ currentTrack' = track
    /\ audio' = DeviceLoadAndPlay(track)
    /\ playThen' = TRUE
    /\ streamReqs' = Append(streamReqs, StreamRecord(track))
    /\ likeLog' = << >>
    /\ events' = EventsAfterLoad(evs)
    /\ dropped' = Len(evs) - Len(EventsAfterLoad(evs))
    /\ UNCHANGED << currentTime, duration, volume, user, serverLikes,
                    likeReqs, likeCalls, libVars >>

PlayTrackBody(track, playlist) == LoadBody(track, playlist, events)

\* playTrack as a page calls it, with items it fetched itself.
PlayTrack(track, playlist) ==
    /\ PlayTrackBody(track, playlist)
    /\ isPlaying' = isPlaying
    /\ shown' = NoTrack

\* The index nextTrack leaves: the one playTrack(queue[nextIndex], queue) stores.
NextCursor(q, i) == IndexAfterPlay(At(q, NextIndex(q, i)), Given(q))

\* ---------------------------------------------------- nextTrack, previous
\* Mutant of NextTrackBody: an advance that lands on the index it started
\* from is skipped.
NextTrackBodySkipsSame ==
    IF Len(queue) = 0 \/ NextIndex(queue, currentIndex) = currentIndex
    THEN UNCHANGED << currentTrack, currentTime, duration, volume, queue,
                      currentIndex, user, audio, playThen, streamReqs,
                      serverLikes, likeReqs, likeCalls, likeLog, events, dropped, shown, libVars >>
    ELSE /\ PlayTrackBody(At(queue, NextIndex(queue, currentIndex)), Given(queue))
         /\ shown' = shown

\* Mutant of NextTrackBody: without the length test, queue[NaN] is
\* undefined and playTrack(undefined, []) stores it before it throws.
NextTrackBodyUnguarded ==
    IF Len(queue) = 0
    THEN /\ queue' = << NoTrack >>
         /\ currentIndex' = 0
         /\ currentTrack' = NoTrack
         /\ UNCHANGED << currentTime, duration, volume, user, audio, playThen,
                         streamReqs, serverLikes, likeReqs, likeCalls, likeLog,
                         events, dropped, shown, libVars >>
    ELSE /\ PlayTrackBody(At(queue, NextIndex(queue, currentIndex)), Given(queue))
         /\ shown' = shown

\* nextTrack: nothing on an empty queue, else playTrack(queue[nextIndex], queue)
NextTrackBody ==
    IF Len(queue) = 0
    THEN UNCHANGED << currentTrack, currentTime, duration, volume, queue,
                      currentIndex, user, audio, playThen, streamReqs,
                      serverLikes, likeReqs, likeCalls, likeLog, events, dropped, shown, libVars >>
    ELSE /\ PlayTrackBody(At(queue, NextIndex(queue, currentIndex)), Given(queue))
         /\ shown' = shown

NextTrack ==
    /\ NextTrackBody
    /\ isPlaying' = isPlaying

PreviousTrack ==
    /\ IF Len(queue) = 0
       THEN UNCHANGED << currentTrack, currentTime, duration, volume, queue,
                         currentIndex, user, audio, playThen, streamReqs,
                         serverLikes, likeReqs, likeCalls, likeLog, events, dropped, shown, libVars >>
       ELSE /\ PlayTrackBody(At(queue, PrevIndex(queue, currentIndex)), Given(queue))
            /\ shown' = shown
    /\ isPlaying' = isPlaying

\* ---------------------------------------------------------------- playPause
\* Mutant of PlayPause: the test for a loaded item is missing.
PlayPauseUnguarded ==
    /\ IF isPlaying
       THEN /\ audio' = [audio EXCEPT !.paused = TRUE, !.pendingPlay = FALSE]
            /\ playThen' = FALSE
            /\ isPlaying' = FALSE
       ELSE /\ audio' = [audio EXCEPT !.paused = FALSE, !.pendingPlay = TRUE]
            /\ playThen' = playThen
            /\ isPlaying' = TRUE
    /\ UNCHANGED << currentTrack, currentTime, duration, volume, queue,
                    currentIndex, user, streamReqs, serverLikes, likeReqs,
                    likeCalls, likeLog, events, dropped, shown, libVars >>

PlayPause ==
    /\ IF currentTrack = NoTrack
       THEN UNCHANGED << isPlaying, audio, playThen >>
       ELSE IF isPlaying
            THEN \* audio.pause(): pending play promises are rejected
                 /\ audio' = [audio EXCEPT !.paused = TRUE, !.pendingPlay = FALSE]
                 /\ playThen' = FALSE
                 /\ isPlaying' = FALSE
            ELSE \* audio.play(): the promise is dropped
                 /\ audio' = [audio EXCEPT !.paused = FALSE, !.pendingPlay = TRUE]
                 /\ playThen' = playThen
                 /\ isPlaying' = TRUE
    /\ UNCHANGED << currentTrack, currentTime, duration, volume, queue,
                    currentIndex, user, streamReqs, serverLikes, likeReqs,
                    likeCalls, likeLog, events, dropped, shown, libVars >>

\* --------------------------------------------------------- seek, setVolume
\* Mutant of Seek: the position shown waits for the device's timeupdate.
SeekDeviceOnly(time) ==
    /\ audio' = [audio EXCEPT !.currentTime = time]
    /\ UNCHANGED << currentTrack, isPlaying, currentTime, duration, volume, queue,
                    currentIndex, user, playThen, streamReqs, serverLikes,
                    likeReqs, likeCalls, likeLog, events, dropped, shown, libVars >>

Seek(time) ==
    /\ audio' = [audio EXCEPT !.currentTime = time]
    /\ currentTime' = time
    /\ UNCHANGED << currentTrack, isPlaying, duration, volume, queue,
                    currentIndex, user, playThen, streamReqs, serverLikes,
                    likeReqs, likeCalls, likeLog, events, dropped, shown, libVars >>

\* The element refuses a volume outside [0, 1] (the assignment throws after
\* the state was set).
SetVolume(newVolume) ==
    /\ volume' = newVolume
    /\ audio' = IF newVolume >= 0 /\ newVolume <= 100
                THEN [audio EXCEPT !.volume = newVolume]
                ELSE audio
    /\ UNCHANGED << currentTrack, isPlaying, currentTime, duration, queue,
                    currentIndex, user, playThen, streamReqs, serverLikes,
                    likeReqs, likeCalls, likeLog, events, dropped, shown, libVars >>

\* --------------------------------------------------- toggleCurrentTrackLike
\* The state a toggle is expected to reach: liked with one more like, or
\* unliked with one less.
Predicted(t) ==
    IF Liked(t)
    THEN [t EXCEPT !.user_liked = << 0 >>, !.likes = << LikesCount(t, 1) - 1 >>]
    ELSE [t EXCEPT !.user_liked = << 1 >>, !.likes = << LikesCount(t, 0) + 1 >>]

\* Mutant of ToggleCurrentTrackLike: the predicted state is applied at the
\* call.
ToggleOptimistic ==
    /\ likeCalls < MaxLikeCalls
    /\ IF currentTrack = NoTrack \/ user = Null
       THEN UNCHANGED << currentTrack, likeReqs, likeCalls >>
       ELSE /\ currentTrack' = Predicted(currentTrack)
            /\ likeReqs' = Append(likeReqs,
                    [track |-> currentTrack.id, pc |-> "select", found |-> FALSE])
            /\ likeCalls' = likeCalls + 1
    /\ UNCHANGED << isPlaying, currentTime, duration, volume,
                    queue, currentIndex, user, audio, playThen, streamReqs,
                    serverLikes, likeLog, events, dropped, shown, libVars >>

\* Mutant of ToggleCurrentTrackLike: the caller is not tested.
ToggleAnonymous ==
    /\ likeCalls < MaxLikeCalls
    /\ IF currentTrack = NoTrack
       THEN UNCHANGED << likeReqs, likeCalls >>
       ELSE /\ likeReqs' = Append(likeReqs,
                    [track |-> currentTrack.id, pc |-> "select", found |-> FALSE])
            /\ likeCalls' = likeCalls + 1
    /\ UNCHANGED << currentTrack, isPlaying, currentTime, duration, volume,
                    queue, currentIndex, user, audio, playThen, streamReqs,
                    serverLikes, likeLog, events, dropped, shown, libVars >>

\* The call: returns at once without a track or a caller, else starts
\* toggleLike(currentTrack.id, user.id) and suspends on it.
ToggleCurrentTrackLike ==
    /\ likeCalls < MaxLikeCalls
    /\ IF currentTrack = NoTrack \/ user = Null
       THEN UNCHANGED << likeReqs, likeCalls >>
       ELSE /\ likeReqs' = Append(likeReqs,
                    [track |-> currentTrack.id, pc |-> "select", found |-> FALSE])
            /\ likeCalls' = likeCalls + 1
    /\ UNCHANGED << currentTrack, isPlaying, currentTime, duration, volume,
                    queue, currentIndex, user, audio, playThen, streamReqs,
                    serverLikes, likeLog, events, dropped, shown, libVars >>

RemoveAt(s, i) == [k \in 1 .. (Len(s) - 1) |-> IF k < i THEN s[k] ELSE s[k + 1]]

\* toggleLike, first await: the select on likes for (track, user)
LikeSelect(i) ==
    /\ i \in 1 .. Len(likeReqs)
    /\ likeReqs[i].pc = "select"
    /\ likeReqs' = [likeReqs EXCEPT ![i].pc = "write",
                                    ![i].found = (likeReqs[i].track \in serverLikes)]
    /\ UNCHANGED << currentTrack, isPlaying, currentTime, duration, volume,
                    queue, currentIndex, user, audio, playThen, streamReqs,
                    serverLikes, likeCalls, likeLog, events, dropped, shown, libVars >>

\* toggleLike, second await: delete the row that was found, or insert one.
\* likes has the primary key (track_id, user_id): inserting a second row
\* is an insertError and the call rejects.
LikeWrite(i) ==
    /\ i \in 1 .. Len(likeReqs)
    /\ likeReqs[i].pc = "write"
    /\ IF likeReqs[i].found
       THEN /\ serverLikes' = serverLikes \ { likeReqs[i].track }
            /\ likeReqs' = [likeReqs EXCEPT ![i].pc = "reply"]
       ELSE IF likeReqs[i].track \in serverLikes
            THEN /\ serverLikes' = serverLikes
                 /\ likeReqs' = [likeReqs EXCEPT ![i].pc = "error"]
            ELSE /\ serverLikes' = serverLikes \cup { likeReqs[i].track }
                 /\ likeReqs' = [likeReqs EXCEPT ![i].pc = "reply"]
    /\ UNCHANGED << currentTrack, isPlaying, currentTime, duration, volume,
                    queue, currentIndex, user, audio, playThen, streamReqs,
                    likeCalls, likeLog, events, dropped, shown, libVars >>

\* Mutant of ApplyLike: the flag shown is flipped, whatever was returned.
ApplyLikeFlips(prev, isLiked) ==
    IF prev = NoTrack THEN NoTrack
    ELSE [prev EXCEPT
            !.user_liked = << IF Liked(prev) THEN 0 ELSE 1 >>,
            !.likes = << IF isLiked THEN LikesCount(prev, 0) + 1
                                    ELSE LikesCount(prev, 1) - 1 >>]

\* Mutant of ApplyLike: the count moves, the flag is left as it was.
ApplyLikeCountOnly(prev, isLiked) ==
    IF prev = NoTrack THEN NoTrack
    ELSE [prev EXCEPT
            !.likes = << IF isLiked THEN LikesCount(prev, 0) + 1
                                    ELSE LikesCount(prev, 1) - 1 >>]

\* The updater passed to setCurrentTrackState once toggleLike has resolved.
ApplyLike(prev, isLiked) ==
    IF prev = NoTrack THEN NoTrack
    ELSE [prev EXCEPT
            !.user_liked = << IF isLiked THEN 1 ELSE 0 >>,
            !.likes = << IF isLiked THEN LikesCount(prev, 0) + 1
                                    ELSE LikesCount(prev, 1) - 1 >>]

\* What toggleLike returns: false after the delete, true after the insert.
Result(req) == ~req.found

\* toggleLike resolves: the rest of toggleCurrentTrackLike runs.
LikeResolve(i) ==
    /\ i \in 1 .. Len(likeReqs)
    /\ likeReqs[i].pc = "reply"
    /\ currentTrack' = ApplyLike(currentTrack, Result(likeReqs[i]))
    /\ likeReqs' = RemoveAt(likeReqs, i)
    /\ likeLog' = Append(likeLog, [track |-> likeReqs[i].track, ok |-> TRUE,
                                    b |-> Result(likeReqs[i]), early |-> i > 1])
    /\ shown' = ApplyLike(currentTrack, Result(likeReqs[i]))
    /\ UNCHANGED << isPlaying, currentTime, duration, volume, queue,
                    currentIndex, user, audio, playThen, streamReqs, serverLikes,
                    likeCalls, events, dropped, libVars >>

\* Mutant of LikeReject: a failed toggle is shown as unliked.
LikeRejectAsUnliked(i) ==
    /\ i \in 1 .. Len(likeReqs)
    /\ currentTrack' = ApplyLike(currentTrack, FALSE)
    /\ likeReqs' = RemoveAt(likeReqs, i)
    /\ likeLog' = Append(likeLog, [track |-> likeReqs[i].track, ok |-> FALSE,
                                    b |-> FALSE, early |-> i > 1])
    /\ UNCHANGED << isPlaying, currentTime, duration, volume,
                    queue, currentIndex, user, audio, playThen, streamReqs,
                    serverLikes, likeCalls, events, dropped, shown, libVars >>

\* toggleLike rejects (fetchError, deleteError, insertError or a lost
\* reply): the await throws and nothing after it runs.
LikeReject(i) ==
    /\ i \in 1 .. Len(likeReqs)
    /\ likeReqs' = RemoveAt(likeReqs, i)
    /\ likeLog' = Append(likeLog, [track |-> likeReqs[i].track, ok |-> FALSE,
                                    b |-> FALSE, early |-> i > 1])
    /\ UNCHANGED << currentTrack, isPlaying, currentTime, duration, volume,
                    queue, currentIndex, user, audio, playThen, streamReqs,
                    serverLikes, likeCalls, events, dropped, shown, libVars >>

\* ------------------------------------------------------------ device events
DevicePlaying == audio.src # NoSrc /\ ~audio.paused /\ ~audio.pendingPlay

\* Mutant of PlayAck: playTrack attaches no then-handler to play().
PlayAckUnheard ==
    /\ audio.pendingPlay
    /\ audio' = [audio EXCEPT !.pendingPlay = FALSE]
    /\ playThen' = FALSE
    /\ UNCHANGED << currentTrack, isPlaying, currentTime, duration, volume, queue,
                    currentIndex, user, streamReqs, serverLikes, likeReqs,
                    likeCalls, likeLog, events, dropped, shown, libVars >>

\* The element starts playing: play() promises resolve, and playTrack's
\* then-handler runs setIsPlaying(true).
PlayAck ==
    /\ audio.pendingPlay
    /\ audio' = [audio EXCEPT !.pendingPlay = FALSE]
    /\ isPlaying' = IF playThen THEN TRUE ELSE isPlaying
    /\ playThen' = FALSE
    /\ UNCHANGED << currentTrack, currentTime, duration, volume, queue,
                    currentIndex, user, streamReqs, serverLikes, likeReqs,
                    likeCalls, likeLog, events, dropped, shown, libVars >>

\* The element refuses to play (autoplay policy, decode failure): play()
\* promises reject, no handler runs.
PlayReject ==
    /\ audio.pendingPlay
    /\ audio' = [audio EXCEPT !.pendingPlay = FALSE, !.paused = TRUE]
    /\ playThen' = FALSE
    /\ UNCHANGED << currentTrack, isPlaying, currentTime, duration, volume,
                    queue, currentIndex, user, streamReqs, serverLikes, likeReqs,
                    likeCalls, likeLog, events, dropped, shown, libVars >>

\* handleTimeUpdate: setCurrentTime(audio.currentTime), after the element
\* moved its position by advance seconds.
TimeUpdate(advance) ==
    /\ audio.src # NoSrc
    /\ advance = 1 => (DevicePlaying /\ audio.duration # 0
                         /\ audio.currentTime < audio.duration)
    /\ audio' = [audio EXCEPT !.currentTime = audio.currentTime + advance]
    /\ currentTime' = audio.currentTime + advance
    /\ UNCHANGED << currentTrack, isPlaying, duration, volume, queue,
                    currentIndex, user, playThen, streamReqs, serverLikes,
                    likeReqs, likeCalls, likeLog, events, dropped, shown, libVars >>

\* handleDurationChange: setDuration(audio.duration), once the metadata of
\* the resource is known.
DurationChange ==
    /\ audio.src # NoSrc
    /\ audio.duration = 0
    /\ audio' = [audio EXCEPT !.duration = TrackDur]
    /\ duration' = TrackDur
    /\ UNCHANGED << currentTrack, isPlaying, currentTime, volume, queue,
                    currentIndex, user, playThen, streamReqs, serverLikes,
                    likeReqs, likeCalls, likeLog, events, dropped, shown, libVars >>

\* Mutant of Ended: the end of a track stops the session.
EndedStops ==
    /\ DevicePlaying
    /\ audio.duration # 0
    /\ audio.currentTime >= audio.duration
    /\ isPlaying' = FALSE
    /\ audio' = [audio EXCEPT !.paused = TRUE]
    /\ UNCHANGED << currentTrack, currentTime, duration, volume, queue,
                    currentIndex, user, playThen, streamReqs, serverLikes,
                    likeReqs, likeCalls, likeLog, events, dropped, shown, libVars >>

\* handleEnded: setIsPlaying(false); nextTrack()
Ended ==
    /\ DevicePlaying
    /\ audio.duration # 0
    /\ audio.currentTime >= audio.duration
    /\ isPlaying' = FALSE
    /\ NextTrackBody

\* The element queues an event task for the resource it holds: the position
\* moved (timeupdate), the metadata arrived (durationchange), or playback
\* reached the end (ended).
QueueEvent(type, advance) ==
    /\ Len(events) < MaxEvents
    /\ audio.src # NoSrc
    /\ CASE type = "timeupdate" ->
              /\ advance = 1 => (DevicePlaying /\ audio.duration # 0
                                   /\ audio.currentTime < audio.duration)
              /\ audio' = [audio EXCEPT !.currentTime = audio.currentTime + advance]
         [] type = "durationchange" ->
              /\ advance = 0
              /\ audio.duration = 0
              /\ audio' = [audio EXCEPT !.duration = TrackDur]
         [] type = "ended" ->
              /\ advance = 0
              /\ DevicePlaying
              /\ audio.duration # 0
              /\ audio.currentTime >= audio.duration
              /\ \A k \in 1 .. Len(events) : events[k].type # "ended"
              /\ audio' = audio
    /\ events' = Append(events, [type |-> type, src |-> audio.src])
    /\ UNCHANGED << currentTrack, isPlaying, currentTime, duration, volume,
                    queue, currentIndex, user, playThen, streamReqs,
                    serverLikes, likeReqs, likeCalls, likeLog, dropped, shown, libVars >>

\* The oldest waiting event task is dispatched to its listener:
\* handleTimeUpdate, handleDurationChange or handleEnded.
DeliverEvent ==
    /\ events # << >>
    /\ CASE Head(events).type = "timeupdate" ->
              /\ currentTime' = audio.currentTime
              /\ events' = Tail(events)
              /\ UNCHANGED << currentTrack, isPlaying, duration, volume, queue,
                              currentIndex, user, audio, playThen, streamReqs,
                              serverLikes, likeReqs, likeCalls, likeLog, dropped, shown, libVars >>
         [] Head(events).type = "durationchange" ->
              /\ duration' = audio.duration
              /\ events' = Tail(events)
              /\ UNCHANGED << currentTrack, isPlaying, currentTime, volume, queue,
                              currentIndex, user, audio, playThen, streamReqs,
                              serverLikes, likeReqs, likeCalls, likeLog, dropped, shown, libVars >>
         [] Head(events).type = "ended" ->
              /\ isPlaying' = FALSE
              /\ IF Len(queue) = 0
                 THEN /\ events' = Tail(events)
                      /\ UNCHANGED << currentTrack, currentTime, duration, volume,
                                      queue, currentIndex, user, audio, playThen,
                                      streamReqs, serverLikes, likeReqs,
                                      likeCalls, likeLog, dropped, shown, libVars >>
                 ELSE /\ LoadBody(At(queue, NextIndex(queue, currentIndex)),
                                  Given(queue), Tail(events))
                      /\ shown' = shown

\* Mutant of StreamDone: a failed insert stops the session.
StreamDoneStopsOnError(failed) ==
    /\ Len(streamReqs) > 0
    /\ streamReqs' = Tail(streamReqs)
    /\ failed \in BOOLEAN
    /\ isPlaying' = IF failed THEN FALSE ELSE isPlaying
    /\ UNCHANGED << currentTrack, currentTime, duration, volume,
                    queue, currentIndex, user, audio, playThen, serverLikes,
                    likeReqs, likeCalls, likeLog, events, dropped, shown, libVars >>

\* incrementStreamCount finishes: the insert went through, or its error is
\* logged; nothing is returned to the player either way.
StreamDone(failed) ==
    /\ Len(streamReqs) > 0
    /\ streamReqs' = Tail(streamReqs)
    /\ failed \in BOOLEAN
    /\ UNCHANGED << currentTrack, isPlaying, currentTime, duration, volume,
                    queue, currentIndex, user, audio, playThen, serverLikes,
                    likeReqs, likeCalls, likeLog, events, dropped, shown, libVars >>

\* ---------------------------------------------------------- specifications
\* The whole session: every command, device event and network step.
Next ==
    \/ \E id \in TrackIds, playlist \in Playlists(ShortIdLists) : PlayTrack(Item(id), playlist)
    \/ NextTrack
    \/ PreviousTrack
    \/ PlayPause
    \/ \E time \in Times : Seek(time)
    \/ \E newVolume \in VolumeInputs : SetVolume(newVolume)
    \/ ToggleCurrentTrackLike
    \/ \E i \in 1 .. MaxLikeCalls : LikeSelect(i)
    \/ \E i \in 1 .. MaxLikeCalls : LikeWrite(i)
    \/ \E i \in 1 .. MaxLikeCalls : LikeResolve(i)
    \/ \E i \in 1 .. MaxLikeCalls : LikeReject(i)
    \/ PlayAck
    \/ PlayReject
    \/ \E advance \in {0, 1} : TimeUpdate(advance)
    \/ DurationChange
    \/ Ended
    \/ \E failed \in BOOLEAN : StreamDone(failed)

Spec == Init /\ [][Next]_vars

\* Playback alone, with longer playlists: the session without the like
\* toggle.
PlaybackNext ==
    \/ \E id \in TrackIds, playlist \in Playlists(LongIdLists) : PlayTrack(Item(id), playlist)
    \/ NextTrack
    \/ PreviousTrack
    \/ PlayPause
    \/ \E time \in Times : Seek(time)
    \/ \E newVolume \in VolumeInputs : SetVolume(newVolume)
    \/ PlayAck
    \/ PlayReject
    \/ \E advance \in {0, 1} : TimeUpdate(advance)
    \/ DurationChange
    \/ Ended
    \/ \E failed \in BOOLEAN : StreamDone(failed)

PlaybackSpec == Init /\ [][PlaybackNext]_vars

\* The like toggle against queue navigation, without the device events.
LikeNext ==
    \/ \E id \in TrackIds, playlist \in Playlists(ShortIdLists) : PlayTrack(Item(id), playlist)
    \/ NextTrack
    \/ PreviousTrack
    \/ ToggleCurrentTrackLike
    \/ \E i \in 1 .. MaxLikeCalls : LikeSelect(i)
    \/ \E i \in 1 .. MaxLikeCalls : LikeWrite(i)
    \/ \E i \in 1 .. MaxLikeCalls : LikeResolve(i)
    \/ \E i \in 1 .. MaxLikeCalls : LikeReject(i)
    \/ \E failed \in BOOLEAN : StreamDone(failed)

LikeSpec == Init /\ [][LikeNext]_vars

\* The element's event tasks in flight: events are queued by the element
\* and dispatched later, with loads in between.
EventNext ==
    \/ \E id \in TrackIds, playlist \in Playlists(ShortIdLists) : PlayTrack(Item(id), playlist)
    \/ NextTrack
    \/ PlayAck
    \/ \E type \in {"timeupdate", "durationchange", "ended"}, advance \in {0, 1} :
          QueueEvent(type, advance)
    \/ DeliverEvent
    \/ \E failed \in BOOLEAN : StreamDone(failed)

EventSpec == Init /\ [][EventNext]_vars

\* Every command and device event, with the toggle requests left in flight.
CommandNext ==
    \/ \E id \in TrackIds, playlist \in Playlists(ShortIdLists) : PlayTrack(Item(id), playlist)
    \/ NextTrack
    \/ PreviousTrack
    \/ PlayPause
    \/ \E time \in Times : Seek(time)
    \/ \E newVolume \in VolumeInputs : SetVolume(newVolume)
    \/ ToggleCurrentTrackLike
    \/ PlayAck
    \/ PlayReject
    \/ \E advance \in {0, 1} : TimeUpdate(advance)
    \/ DurationChange
    \/ Ended
    \/ \E failed \in BOOLEAN : StreamDone(failed)

CommandSpec == Init /\ [][CommandNext]_vars

\* Unattended playback: one list is started and left to the device, which
\* acknowledges every play request it is left with.
AutoNext ==
    \/ /\ currentTrack = NoTrack
       /\ \E id \in TrackIds, playlist \in Playlists(ShortIdLists) :
             PlayTrack(Item(id), playlist)
    \/ PlayAck
    \/ \E advance \in {0, 1} : TimeUpdate(advance)
    \/ DurationChange
    \/ Ended
    \/ \E failed \in BOOLEAN : StreamDone(failed)

AutoSpec == Init /\ [][AutoNext]_vars /\ WF_vars(PlayAck)

\* The queue alone: the commands that write the queue and the cursor, with
\* the play requests and stream inserts they start.
QueueNext ==
    \/ \E id \in TrackIds, playlist \in Playlists(LongIdLists) : PlayTrack(Item(id), playlist)
    \/ NextTrack
    \/ PreviousTrack
    \/ PlayAck
    \/ PlayReject
    \/ \E failed \in BOOLEAN : StreamDone(failed)

QueueSpec == Init /\ [][QueueNext]_vars

\* ------------------------------------------------------------------ claims
\* list.indexOf(item), 0-based, and list.includes(item)
IndexOf(list, item) ==
    (CHOOSE i \in 1 .. Len(list) :
        /\ list[i] = item
        /\ \A j \in 1 .. (i - 1) : list[j] # item) - 1

Contains(list, item) == \E i \in 1 .. Len(list) : list[i] = item

\* C1: playTrack(item, list) with item in list leaves the queue equal to
\* list and the cursor at the position of item in list.
C1_PlayTrackAdoptsList ==
    [][\A id \in TrackIds, playlist \in Playlists(LongIdLists) :
          ( /\ playlist.given
            /\ Contains(playlist.list, Item(id))
            /\ PlayTrack(Item(id), playlist) )
          => ( /\ queue' = playlist.list
               /\ currentIndex' = IndexOf(playlist.list, Item(id)) )]_vars

\* A full-length playlist was adopted with the cursor past a duplicate id.
C1_Witness ==
    /\ Len(queue) = MaxLen
    /\ currentIndex = MaxLen - 1
    /\ At(queue, 0).id = At(queue, 1).id
    /\ currentTrack = At(queue, currentIndex)
    /\ playThen

\* C2: playTrack(item) without a list, or with a list that lacks item,
\* leaves the queue [item] and the cursor 0, whatever they were before.
C2_PlayTrackCollapses ==
    [][\A id \in TrackIds, playlist \in Playlists(LongIdLists) :
          ( /\ ~playlist.given \/ ~Contains(playlist.list, Item(id))
            /\ PlayTrack(Item(id), playlist) )
          => ( /\ queue' = << Item(id) >>
               /\ currentIndex' = 0 )]_vars

\* A one-item queue at cursor 0, its item loaded and asked to play.
C2_Witness ==
    /\ Len(queue) = 1
    /\ currentIndex = 0
    /\ currentTrack = At(queue, 0)
    /\ playThen

\* C3: either the queue is empty and no item is current, or the cursor is
\* a valid index into the queue.
C3_CursorValid ==
    \/ queue = << >> /\ currentTrack = NoTrack
    \/ Len(queue) > 0 /\ 0 <= currentIndex /\ currentIndex < Len(queue)

\* The cursor on the last item of a playlist while a toggle is in flight.
C3_Witness ==
    /\ Len(queue) = ShortLen
    /\ currentIndex = ShortLen - 1
    /\ isPlaying
    /\ Len(likeReqs) > 0

\* The cursor after nextTrack ran k times in succession on queue q from i.
RECURSIVE CursorAfterNexts(_, _, _)
CursorAfterNexts(q, i, k) ==
    IF k = 0 THEN i ELSE CursorAfterNexts(q, NextCursor(q, i), k - 1)

\* C4: on every non-empty queue, duplicates of a track id included,
\* length(queue) nextTrack calls in succession return the cursor to where
\* it started.
C4_CyclicNext ==
    Len(queue) > 0 =>
        CursorAfterNexts(queue, currentIndex, Len(queue)) = currentIndex

\* C5: on a non-empty queue nextTrack moves the cursor to (i+1) mod n and
\* previousTrack to (i-1+n) mod n, the item there becomes current and the
\* queue is unchanged.
C5_WrapAround ==
    [][ /\ (Len(queue) > 0 /\ NextTrack) =>
             ( /\ currentIndex' = (currentIndex + 1) % Len(queue)
               /\ currentTrack' = At(queue, currentIndex')
               /\ queue' = queue )
        /\ (Len(queue) > 0 /\ PreviousTrack) =>
             ( /\ currentIndex' = (currentIndex - 1 + Len(queue)) % Len(queue)
               /\ currentTrack' = At(queue, currentIndex')
               /\ queue' = queue ) ]_vars

\* C6: a natural end sets playing to false and does what nextTrack does:
\* the following item is loaded and asked to play, the first one after the
\* last.
C6_EndedAdvances ==
    [][ Ended =>
          ( /\ isPlaying' = FALSE
            /\ Len(queue) > 0
            /\ queue' = queue
            /\ currentTrack' = At(queue, (currentIndex + 1) % Len(queue))
            /\ currentIndex = Len(queue) - 1 =>
                  (currentIndex' = 0 /\ currentTrack' = At(queue, 0))
            /\ audio'.src = currentTrack'.id
            /\ ~audio'.paused /\ audio'.pendingPlay /\ playThen'
            /\ Len(streamReqs') = Len(streamReqs) + 1 ) ]_vars

\* The first item of a longer queue reloaded and asked to play, not yet
\* playing, the session still showing the end position of the track that
\* ended while the element is back at 0.
C6_Witness ==
    /\ Len(queue) > 1
    /\ currentIndex = 0
    /\ currentTrack = At(queue, 0)
    /\ ~isPlaying /\ playThen /\ audio.pendingPlay
    /\ duration = TrackDur /\ currentTime = TrackDur
    /\ audio.currentTime = 0 /\ audio.duration = 0
\* C7: the result of a toggle issued while item X was loaded is applied
\* to X only: when another item is loaded as the response arrives, that
\* item is left as it is.
C7_AppliedToIssuedItem ==
    [][\A i \in 1 .. Len(likeReqs) :
          ( /\ currentTrack # NoTrack
            /\ likeReqs[i].track # currentTrack.id
            /\ LikeResolve(i) )
          => currentTrack' = currentTrack]_vars

C10_LastResponseWins ==
    ( /\ currentTrack # NoTrack
      /\ likeReqs = << >>
      /\ Len(likeLog) >= 2
      /\ \A k \in (Len(likeLog) - 1) .. Len(likeLog) :
            likeLog[k].ok /\ likeLog[k].track = currentTrack.id )
    => Liked(currentTrack) = likeLog[Len(likeLog)].b

\* The second call's response overtook the first call's, the two booleans
\* differ, and the flag shown is the one that arrived last.
C10_Witness ==
    /\ currentTrack # NoTrack
    /\ likeReqs = << >>
    /\ Len(likeLog) = 2
    /\ \A k \in 1 .. 2 : likeLog[k].ok /\ likeLog[k].track = currentTrack.id
    /\ likeLog[1].early
    /\ likeLog[1].b # likeLog[2].b
    /\ Liked(currentTrack) = likeLog[2].b

C12_ToggleNoOp ==
    [][ ( /\ currentTrack = NoTrack \/ user = Null
          /\ ToggleCurrentTrackLike )
        => ( /\ likeReqs' = likeReqs
             /\ likeCalls' = likeCalls
             /\ vars' = vars ) ]_vars

\* An item is loaded for a visitor who is not signed in, and no toggle was
\* ever issued.
C12_Witness ==
    /\ currentTrack # NoTrack
    /\ user = Null
    /\ likeReqs = << >>
    /\ likeCalls = 0
    /\ serverLikes = {}

\* C13: setVolume clamps its argument, so the session volume is within
\* [0, 1] (0 to 100 hundredths) in every reachable state.
C13_VolumeClamped == volume >= 0 /\ volume <= 100

\* C14: the playing flag is true only if the device has acknowledged a
\* play request for the item that is loaded now.
C14_PlayingOnlyAfterAck ==
    isPlaying => ( /\ currentTrack # NoTrack
                   /\ audio.src = currentTrack.id
                   /\ ~audio.paused
                   /\ ~audio.pendingPlay )

C16_RejectLeavesNotPlaying ==
    [][PlayReject => ~isPlaying']_vars

\* C17: every load (a step that starts a stream record) leaves the session
\* position at 0 and the session duration unknown (0).
C17_LoadResets ==
    [][ Len(streamReqs') = Len(streamReqs) + 1
          => (currentTime' = 0 /\ duration' = 0) ]_vars

\* C18: every load issues exactly one stream record with the loaded item's
\* id and the caller's id (null without a caller); playPause, seek,
\* setVolume, toggleCurrentTrackLike and an advance on an empty queue
\* issue none.
C18_OneStreamPerLoad ==
    [][ /\ \A id \in TrackIds, playlist \in Playlists(ShortIdLists) :
             PlayTrack(Item(id), playlist)
               => streamReqs' = Append(streamReqs, [track_id |-> id, user_id |-> user])
        /\ (Len(queue) > 0 /\ (NextTrack \/ Ended))
             => streamReqs' = Append(streamReqs,
                    [track_id |-> At(queue, NextIndex(queue, currentIndex)).id,
                     user_id |-> user])
        /\ (Len(queue) > 0 /\ PreviousTrack)
             => streamReqs' = Append(streamReqs,
                    [track_id |-> At(queue, PrevIndex(queue, currentIndex)).id,
                     user_id |-> user])
        /\ ( \/ PlayPause
             \/ \E time \in Times : Seek(time)
             \/ \E newVolume \in VolumeInputs : SetVolume(newVolume)
             \/ ToggleCurrentTrackLike
             \/ Len(queue) = 0 /\ (NextTrack \/ PreviousTrack) )
             => streamReqs' = streamReqs ]_vars

\* A signed-in caller has an item loaded with its one stream record in
\* flight, and has since paused and asked for a like.
C18_Witness ==
    /\ user # Null
    /\ currentTrack # NoTrack
    /\ streamReqs = << [track_id |-> currentTrack.id, user_id |-> user] >>
    /\ audio.paused
    /\ Len(likeReqs) = 1

\* C19: playPause without a loaded item changes nothing and commands the
\* device to do nothing; with an item loaded it flips the playing flag and
\* sends the device the matching command, so a second call flips it back.
C19_PlayPauseFlips ==
    [][ PlayPause =>
          IF currentTrack = NoTrack
          THEN vars' = vars
          ELSE /\ isPlaying' = ~isPlaying
               /\ audio'.paused = isPlaying
               /\ currentTrack' = currentTrack ]_vars

\* playPause resumed a paused item: the flag reads playing and the play
\* request it sent, which nobody waits on, is still pending.
C19_Witness ==
    /\ currentTrack # NoTrack
    /\ isPlaying
    /\ ~audio.paused
    /\ audio.pendingPlay
    /\ ~playThen

\* C20: nextTrack, previousTrack and a natural end on an empty queue leave
\* the queue, the cursor and the current item as they are and load nothing.
C20_EmptyQueueNoOp ==
    [][ (Len(queue) = 0 /\ (NextTrack \/ PreviousTrack \/ Ended))
          => ( /\ queue' = queue
               /\ currentIndex' = currentIndex
               /\ currentTrack' = currentTrack
               /\ audio' = audio
               /\ streamReqs' = streamReqs ) ]_vars

\* The session was used (volume and position set) with nothing ever
\* loaded: the queue is empty and an advance finds nothing to load.
C20_Witness ==
    /\ queue = << >>
    /\ currentTrack = NoTrack
    /\ currentIndex = 0
    /\ audio.src = NoSrc
    /\ streamReqs = << >>
    /\ volume # InitVolume
    /\ currentTime # 0

\* C21: on a one-item queue nextTrack, previousTrack and a natural end keep
\* the cursor at 0 and load the item again: the device is rebound and asked
\* to play, and one more stream record is started.
C21_SingleItemReloads ==
    [][ (Len(queue) = 1 /\ (NextTrack \/ PreviousTrack \/ Ended))
          => ( /\ queue' = queue
               /\ currentIndex' = 0
               /\ currentTrack' = At(queue, 0)
               /\ audio'.src = At(queue, 0).id
               /\ audio'.pendingPlay /\ ~audio'.paused
               /\ audio'.currentTime = 0 /\ audio'.duration = 0
               /\ playThen'
               /\ streamReqs' = Append(streamReqs,
                      [track_id |-> At(queue, 0).id, user_id |-> user]) ) ]_vars

\* The only item of the queue played to its end and was loaded again: the
\* session still shows the end position, the device is back at 0 with a
\* play request pending.
C21_Witness ==
    /\ Len(queue) = 1
    /\ currentIndex = 0
    /\ ~isPlaying
    /\ currentTime = TrackDur
    /\ duration = TrackDur
    /\ audio.currentTime = 0
    /\ audio.duration = 0
    /\ audio.pendingPlay
    /\ playThen
    /\ Len(streamReqs) = 1

\* C22: the end of a stream recording, successful or failed, leaves the
\* current item, the queue, the cursor, the playing flag, the position, the
\* duration and the volume as they were.
C22_StreamOutcomeIgnored ==
    [][ (\E failed \in BOOLEAN : StreamDone(failed))
          => ( /\ currentTrack' = currentTrack
               /\ queue' = queue
               /\ currentIndex' = currentIndex
               /\ isPlaying' = isPlaying
               /\ currentTime' = currentTime
               /\ duration' = duration
               /\ volume' = volume
               /\ audio' = audio ) ]_vars

\* The recording of the loaded item is over while the item plays on.
C22_Witness ==
    /\ currentTrack # NoTrack
    /\ streamReqs = << >>
    /\ isPlaying
    /\ DevicePlaying
    /\ audio.src = currentTrack.id

\* C23: seek(t) sets the position to t at once and changes nothing else of
\* the session; setVolume(v) sets the volume and changes nothing else; a
\* load leaves the volume as it was.
C23_SeekAndVolumeFrame ==
    [][ /\ \A time \in Times :
             Seek(time) => ( /\ currentTime' = time
                             /\ UNCHANGED << currentTrack, queue, currentIndex,
                                             isPlaying, duration, volume >> )
        /\ \A newVolume \in VolumeInputs :
             SetVolume(newVolume) => ( /\ volume' = newVolume
                                       /\ UNCHANGED << currentTrack, queue,
                                                       currentIndex, isPlaying,
                                                       currentTime, duration >> )
        /\ Len(streamReqs') = Len(streamReqs) + 1
             => (volume' = volume /\ audio'.volume = audio.volume) ]_vars

\* The volume was set and the position was moved to 1 s by seek alone (the
\* duration is still unknown, so nothing has played), with an item loaded.
C23_Witness ==
    /\ currentTrack # NoTrack
    /\ volume = 50
    /\ audio.volume = 50
    /\ currentTime = 1
    /\ audio.currentTime = 1
    /\ audio.duration = 0
    /\ duration = 0

\* The state a natural end leaves: the flag cleared, the next item loaded
\* with its play request pending, the session still showing the end
\* position of the item that ended.
AfterNaturalEnd ==
    /\ Len(queue) > 0
    /\ ~isPlaying
    /\ playThen
    /\ audio.pendingPlay
    /\ currentTime = TrackDur
    /\ audio.currentTime = 0

\* C24: after a natural end on a non-empty queue, once the device
\* acknowledges the play request, the playing flag is true and the current
\* item is the one the end advanced to.
C24_AdvanceResumes ==
    \A id \in TrackIds :
        (AfterNaturalEnd /\ currentTrack.id = id)
            ~> (isPlaying /\ currentTrack.id = id /\ audio.src = id /\ DevicePlaying)

\* The item after the one that ended is playing and no timeupdate of it
\* has arrived yet.
C24_Witness ==
    /\ Len(queue) > 1
    /\ isPlaying
    /\ DevicePlaying
    /\ audio.src = currentTrack.id
    /\ currentTime = TrackDur
    /\ audio.currentTime = 0

\* C25: the current item is null exactly when the queue is empty, and
\* otherwise has the track id of the queue item at the cursor.
C25_CurrentMatchesCursor ==
    /\ (currentTrack = NoTrack) <=> (queue = << >>)
    /\ queue # << >> =>
         ( /\ currentIndex \in 0 .. (Len(queue) - 1)
           /\ currentTrack.id = At(queue, currentIndex).id )

\* A toggle has resolved on the second item of the queue: the current item
\* no longer equals the queue's copy but carries the same id.
C25_Witness ==
    /\ Len(queue) = ShortLen
    /\ currentIndex = ShortLen - 1
    /\ currentTrack # NoTrack
    /\ currentTrack # At(queue, currentIndex)
    /\ currentTrack.id = At(queue, currentIndex).id

\* C26: the like count shown for the current item is never negative.
C26_CountNotNegative ==
    currentTrack # NoTrack => LikesCount(currentTrack, 0) >= 0

\* C27: a like state changed by a resolved toggle on item X is kept when the
\* listener goes away from X and back with nextTrack/previousTrack: once X
\* has been loaded again from a two-item queue, its liked flag and like
\* count are those shown right after the toggle resolved.
C27_LikeKeptOnReturn ==
    ( /\ currentTrack # NoTrack
      /\ shown # NoTrack
      /\ shown.id = currentTrack.id
      /\ likeLog = << >>
      /\ Len(queue) = 2
      /\ queue[1].id # queue[2].id )
        => /\ Liked(currentTrack) = Liked(shown)
           /\ LikesCount(currentTrack, 0) = LikesCount(shown, 0)

\* C28: once every toggle request for the current item has resolved, with
\* none left in flight and none rejected, the liked flag shown for it says
\* whether the server stores a like row for that track and caller.
C28_FlagMatchesServer ==
    ( /\ currentTrack # NoTrack
      /\ likeReqs = << >>
      /\ likeLog # << >>
      /\ \A k \in 1 .. Len(likeLog) :
            likeLog[k].ok /\ likeLog[k].track = currentTrack.id )
        => (Liked(currentTrack) <=> currentTrack.id \in serverLikes)

\* ------------------------------------------------- uploadTrack, deleteTrack
\* Every request to storage or to the database either takes effect or
\* comes back with an error and no effect.
Done(pc) == pc \in { "idle", "returned", "threw" }

\* uploadTrack is called: nothing is sent before the first await.
UploadTrack ==
    /\ Done(upl.pc)
    /\ uploads < MaxUploads
    /\ uploads' = uploads + 1
    /\ upl' = [pc |-> "audio", n |-> uploads + 1,
               audio_url |-> NoUrl, cover_art_url |-> NoUrl]
    /\ UNCHANGED << playerVars, files, tracks, contributors, del >>

\* uploadFile: store the object under a fresh name and return its public
\* address, or throw the storage error.
UploadFile(bucket, failed) ==
    IF failed THEN files' = files
    ELSE files' = files \cup { [bucket |-> bucket, name |-> FileName(upl.n)] }

\* await uploadFile('audio_files', audioFile)
UploadAudio(failed) ==
    /\ upl.pc = "audio"
    /\ UploadFile("audio_files", failed)
    /\ upl' = IF failed THEN [upl EXCEPT !.pc = "threw"]
              ELSE [upl EXCEPT !.pc = "cover",
                               !.audio_url = PublicUrl("audio_files", FileName(upl.n))]
    /\ UNCHANGED << playerVars, tracks, contributors, uploads, del >>

\* await uploadFile('cover_art', coverArtFile)
UploadCover(failed) ==
    /\ upl.pc = "cover"
    /\ UploadFile("cover_art", failed)
    /\ upl' = IF failed THEN [upl EXCEPT !.pc = "threw"]
              ELSE [upl EXCEPT !.pc = "track",
                               !.cover_art_url = PublicUrl("cover_art", FileName(upl.n))]
    /\ UNCHANGED << playerVars, tracks, contributors, uploads, del >>

\* The insert into tracks; trackError is thrown.
InsertTrack(failed) ==
    /\ upl.pc = "track"
    /\ IF failed
       THEN /\ tracks' = tracks
            /\ upl' = [upl EXCEPT !.pc = "threw"]
       ELSE /\ tracks' = tracks \cup { [id |-> upl.n, audio_url |-> upl.audio_url,
                                         cover_art_url |-> upl.cover_art_url] }
            /\ upl' = [upl EXCEPT !.pc = "contributors"]
    /\ UNCHANGED << playerVars, files, contributors, uploads, del >>

\* The insert into contributors; on contributorError the row is to be
\* taken back before the error is thrown. track_id references tracks(id):
\* with the row deleted meanwhile the insert is an error as well.
InsertContributors(failed) ==
    /\ upl.pc = "contributors"
    /\ IF failed
       THEN /\ contributors' = contributors
            /\ upl' = [upl EXCEPT !.pc = "rollback"]
       ELSE /\ contributors' = IF \E r \in tracks : r.id = upl.n
                                THEN contributors \cup { upl.n }
                                ELSE contributors
            /\ upl' = [upl EXCEPT !.pc = IF \E r \in tracks : r.id = upl.n
                                         THEN "returned" ELSE "rollback"]
    /\ UNCHANGED << playerVars, files, tracks, uploads, del >>

\* await supabase.from('tracks').delete().eq('id', newTrack.id): what the
\* delete returns is not looked at, and contributorError is thrown.
Rollback(failed) ==
    /\ upl.pc = "rollback"
    /\ tracks' = IF failed THEN tracks ELSE { r \in tracks : r.id # upl.n }
    /\ upl' = [upl EXCEPT !.pc = "threw"]
    /\ UNCHANGED << playerVars, files, contributors, uploads, del >>

\* The objects a row points to.
FilesOf(row) ==
    { [bucket |-> "audio_files", name |-> LastSegment(row.audio_url)],
      [bucket |-> "cover_art", name |-> LastSegment(row.cover_art_url)] }

\* deleteTrack(row.id, row.audio_url, row.cover_art_url), as the dashboard
\* calls it: it throws at once when a file name cannot be extracted.
DeleteTrack(row) ==
    /\ Done(del.pc)
    /\ row \in tracks
    /\ del' = [pc |-> IF LastSegment(row.audio_url) = NoName
                         \/ LastSegment(row.cover_art_url) = NoName
                      THEN "threw" ELSE "audio",
               row |-> row, had |-> FilesOf(row) \cap files]
    /\ UNCHANGED << playerVars, files, tracks, contributors, uploads, upl >>

\* remove([audioFileName]) from audio_files: an error is logged only.
RemoveAudio(failed) ==
    /\ del.pc = "audio"
    /\ files' = IF failed THEN files
                ELSE files \ { [bucket |-> "audio_files",
                                 name |-> LastSegment(del.row.audio_url)] }
    /\ del' = [del EXCEPT !.pc = "cover"]
    /\ UNCHANGED << playerVars, tracks, contributors, uploads, upl >>

\* remove([coverArtFileName]) from cover_art: an error is logged only.
RemoveCover(failed) ==
    /\ del.pc = "cover"
    /\ files' = IF failed THEN files
                ELSE files \ { [bucket |-> "cover_art",
                                 name |-> LastSegment(del.row.cover_art_url)] }
    /\ del' = [del EXCEPT !.pc = "row"]
    /\ UNCHANGED << playerVars, tracks, contributors, uploads, upl >>

\* The delete on tracks (contributors rows go with it, ON DELETE CASCADE);
\* dbError is thrown.
DeleteRow(failed) ==
    /\ del.pc = "row"
    /\ IF failed
       THEN /\ UNCHANGED << tracks, contributors >>
            /\ del' = [del EXCEPT !.pc = "threw"]
       ELSE /\ tracks' = { r \in tracks : r.id # del.row.id }
            /\ contributors' = contributors \ { del.row.id }
            /\ del' = [del EXCEPT !.pc = "returned"]
    /\ UNCHANGED << playerVars, files, uploads, upl >>

\* The library: uploads and deletes of one session, in any interleaving.
LibraryNext ==
    \/ UploadTrack
    \/ \E failed \in BOOLEAN : UploadAudio(failed)
    \/ \E failed \in BOOLEAN : UploadCover(failed)
    \/ \E failed \in BOOLEAN : InsertTrack(failed)
    \/ \E failed \in BOOLEAN : InsertContributors(failed)
    \/ \E failed \in BOOLEAN : Rollback(failed)
    \/ \E row \in tracks : DeleteTrack(row)
    \/ \E failed \in BOOLEAN : RemoveAudio(failed)
    \/ \E failed \in BOOLEAN : RemoveCover(failed)
    \/ \E failed \in BOOLEAN : DeleteRow(failed)

LibrarySpec == Init /\ [][LibraryNext]_vars

\* C29: uploadTrack leaves no partial track behind: when it has ended with
\* an error, the tracks table holds no row that this call created.
C29_NoPartialTrack ==
    upl.pc = "threw" => ~ \E r \in tracks : r.id = upl.n

\* C30: deleteTrack never leaves a row that points to removed files: when
\* it has ended with an error, the files the track had in storage are
\* still there and its row is still in the tracks table.
C30_ErrorLeavesTrackWhole ==
    del.pc = "threw" => (del.had \subseteq files /\ del.row \in tracks)
====
